---- MODULE Spec2Model ----
(***************************************************************************)
(* A model of tools/docxfile.py: the OOXML style merger (content-type      *)
(* manifest and relationship-table repair, part copying, working           *)
(* directories) and the tool invocation that wraps it.                     *)
(*                                                                         *)
(* Files are modelled by their content: an XML table is a record           *)
(* [exists, body] whose body is the sequence of its child elements in      *)
(* document order; a string built by an f-string is a sequence of tokens.  *)
(***************************************************************************)
EXTENDS Integers, Sequences, FiniteSets, TLC

\* ------------------------------------------------------------ bounds
\* Relationships of the table ensure_relationship starts from.
MaxInitRels == 3
\* Calls of ensure_relationship made on one table.
MaxCalls == 3
\* Override elements of the manifest ensure_content_type_override starts from,
\* beyond the one of the main document part.
MaxInitOverrides == 2
\* Calls of ensure_content_type_override made on one manifest.
MaxCtCalls == 2

\* --------------------------------------------------------- constants
REL_TYPE_NUMBERING == "relationships/numbering"
REL_TYPE_STYLES == "relationships/styles"
REL_TYPE_THEME == "relationships/theme"

PARTS_TO_COPY ==
    << "word/styles.xml",
       "word/stylesWithEffects.xml",
       "word/theme/theme1.xml",
       "word/fontTable.xml",
       "word/numbering.xml",
       "word/settings.xml",
       "word/_rels/styles.xml.rels",
       "word/_rels/numbering.xml.rels" >>

\* The dictionary CONTENT_TYPES: part name -> content type.
CONTENT_TYPES ==
    [ pn \in { "/word/styles.xml", "/word/stylesWithEffects.xml",
               "/word/theme/theme1.xml", "/word/fontTable.xml",
               "/word/numbering.xml", "/word/settings.xml" } |->
        CASE pn = "/word/styles.xml" -> "wordprocessingml.styles+xml"
          [] pn = "/word/stylesWithEffects.xml" -> "ms-word.stylesWithEffects+xml"
          [] pn = "/word/theme/theme1.xml" -> "theme+xml"
          [] pn = "/word/fontTable.xml" -> "wordprocessingml.fontTable+xml"
          [] pn = "/word/numbering.xml" -> "wordprocessingml.numbering+xml"
          [] pn = "/word/settings.xml" -> "wordprocessingml.settings+xml" ]

\* ------------------------------------------------------------- state
VARIABLES
    relTable,   \* the relationship file at doc_rels_path: [exists, body]
    relInit,    \* history: the table before the first call
    relPrev,    \* history: the table before the last call
    relCall,    \* history: the last call's arguments, <<>> before any call
    relCalls,   \* number of calls made
    ctFile,     \* the manifest at ct_path: [exists, body]
    ctPrev,     \* history: the manifest before the last call
    ctCall,     \* history: the last call's arguments, <<>> before any call
    ctCalls,    \* number of calls made
    ctx,        \* the entry point a behaviour runs: "rel", "ct", "merge"
    pc,         \* per invocation: the statement it is at
    args,       \* per invocation: [template_path, output_path] of the merge
    idx,        \* per invocation: the index of the for loop it is in
    exc,        \* per invocation: the statement that raised, "" if none did
    files,      \* the .docx files of the working directory, by path
    dirs,       \* the two extraction directories, by name
    blank,      \* the package Document().save() writes
    template_file,   \* tool_parameters['model']: [kind, bytes]
    markdown,        \* tool_parameters['query'] split into lines
    tplStyles,       \* the style names the template's word/styles.xml defines
    output_filename, \* tool_parameters['output_filename']
    doc,             \* target_doc: [styles, body]
    line_i,          \* i, the line index of the block parser
    table_content,   \* the lines of the last table capture
    ret,             \* what generate_docx_with_template returns
    texc,            \* the exception _invoke's handler reports
    out              \* the messages the invocation has yielded

relVars == <<relTable, relInit, relPrev, relCall, relCalls>>
ctVars == <<ctFile, ctPrev, ctCall, ctCalls>>
fsVars == <<files, dirs>>
runVars == <<ctx, pc, args, idx, exc, blank>>
inVars == <<template_file, markdown, tplStyles, output_filename>>
buildVars == <<doc, line_i, table_content, ret>>
toolVars == <<inVars, buildVars, texc, out>>
\* What no step of a merge changes.
envVars == <<ctx, args, blank, relVars, ctVars, inVars>>
vars == <<relVars, ctVars, fsVars, runVars, toolVars>>

\* ------------------------------------------- relationship identifiers
\* str(n) of a natural number: its decimal digits, most significant first.
RECURSIVE Digits(_)
Digits(n) == IF n < 10 THEN <<n>> ELSE Digits(n \div 10) \o <<n % 10>>

\* f"rId{n}"
RId(n) == <<"rId">> \o Digits(n)

\* A Relationship element without an Id attribute: el.get("Id") is None.
NoId == <<>>

NoFile == [exists |-> FALSE, body |-> <<>>]
XmlFile(body) == [exists |-> TRUE, body |-> body]

Relationship(id, type, target) == [Id |-> id, Type |-> type, Target |-> target]

\* read_relationships: a missing file is created with an empty root.
read_relationships(file) == IF file.exists THEN file ELSE XmlFile(<<>>)

\* The set of Id attributes of the root's Relationship children.
existing_ids(root) == {root[i].Id : i \in DOMAIN root} \ {NoId}

\* A plausible wrong assignment: number of identifiers plus one.
next_rid_by_count(ids, n) == RId(Cardinality(ids) + 1)

\* The while loop of ensure_relationship, entered with next_num = n.
RECURSIVE next_rid(_, _)
next_rid(ids, n) == IF RId(n) \in ids THEN next_rid(ids, n + 1) ELSE RId(n)

\* root.xpath('r:Relationship[@Type=... and @Target=...]')
rel_exists(root, rel_type, target) ==
    \E i \in DOMAIN root : root[i].Type = rel_type /\ root[i].Target = target

\* A plausible wrong ensure_relationship: no lookup before the append.
ensure_relationship_always_adds(file, rel_type, target) ==
    LET tree == read_relationships(file)
    IN XmlFile(Append(tree.body,
                      Relationship(next_rid(existing_ids(tree.body), 1),
                                   rel_type, target)))

\* ensure_relationship: the file's content after the call.
ensure_relationship(file, rel_type, target) ==
    LET tree == read_relationships(file)
    IN IF rel_exists(tree.body, rel_type, target)
       THEN tree
       ELSE XmlFile(Append(tree.body,
                           Relationship(next_rid(existing_ids(tree.body), 1),
                                        rel_type, target)))

\* ------------------------------------------------ content-type manifest
Default(ext, ctype) == [Tag |-> "Default", Name |-> ext, ContentType |-> ctype]
Override(partname, ctype) == [Tag |-> "Override", Name |-> partname, ContentType |-> ctype]

\* root.xpath('ct:Override[@PartName="{partname}"]')
override_found(root, partname) ==
    \E i \in DOMAIN root : root[i].Tag = "Override" /\ root[i].Name = partname

\* A plausible wrong ensure_content_type_override: no lookup before the append.
ensure_content_type_override_always_adds(file, partname, content_type) ==
    XmlFile(Append(file.body, Override(partname, content_type)))

\* ensure_content_type_override: the manifest's content after the call. The
\* file is rewritten only when the Override was missing.
ensure_content_type_override(file, partname, content_type) ==
    IF override_found(file.body, partname)
    THEN file
    ELSE XmlFile(Append(file.body, Override(partname, content_type)))

\* What every package's manifest holds.
BaseManifest ==
    << Default("rels", "relationships+xml"),
       Default("xml", "application/xml"),
       Override("/word/document.xml", "wordprocessingml.document.main+xml") >>

\* ------------------------------------------------- packages and files
\* A package: its parts other than the manifest and the main document's
\* relationship table (part path -> where the bytes came from), the manifest
\* [Content_Types].xml and the table word/_rels/document.xml.rels.
Pkg(parts, ct, rels) == [parts |-> parts, ct |-> ct, rels |-> rels]

NoParts == [n \in {} |-> "blank"]
EmptyPkg == Pkg(NoParts, NoFile, NoFile)

\* A file of the working directory: missing, bytes that are no ZIP archive,
\* or an archive holding a package.
Absent == [exists |-> FALSE, zip |-> FALSE, pkg |-> EmptyPkg]
NotZip == [exists |-> TRUE, zip |-> FALSE, pkg |-> EmptyPkg]
DocxFile(pkg) == [exists |-> TRUE, zip |-> TRUE, pkg |-> pkg]

\* An extraction directory: missing, or a tree holding a package's files.
NoDir == [exists |-> FALSE, pkg |-> EmptyPkg]
Dir(pkg) == [exists |-> TRUE, pkg |-> pkg]

t_dir == "_tmp_tpl_unzip"
b_dir == "_tmp_blank_unzip"
WorkDirs == {t_dir, b_dir}

Procs == {1, 2}
Paths == {"tmp_template.docx", "tmp_output.docx", "other_template.docx", "other_output.docx"}

\* os.path.exists(os.path.join(dir, rel_path)) for a part path.
path_exists(dir, rel_path) == dir.exists /\ rel_path \in DOMAIN dir.pkg.parts

\* The keys of CONTENT_TYPES in the order the dictionary is iterated.
CONTENT_TYPES_keys ==
    << "/word/styles.xml", "/word/stylesWithEffects.xml", "/word/theme/theme1.xml",
       "/word/fontTable.xml", "/word/numbering.xml", "/word/settings.xml" >>

\* partname.lstrip("/")
lstrip_slash(partname) ==
    CASE partname = "/word/styles.xml" -> "word/styles.xml"
      [] partname = "/word/stylesWithEffects.xml" -> "word/stylesWithEffects.xml"
      [] partname = "/word/theme/theme1.xml" -> "word/theme/theme1.xml"
      [] partname = "/word/fontTable.xml" -> "word/fontTable.xml"
      [] partname = "/word/numbering.xml" -> "word/numbering.xml"
      [] partname = "/word/settings.xml" -> "word/settings.xml"

\* A plausible wrong unzip_docx: extractall over whatever the directory holds.
unzip_docx_no_wipe(dir, file) ==
    IF ~ dir.exists THEN Dir(file.pkg)
    ELSE Dir(Pkg(file.pkg.parts @@ dir.pkg.parts,
                 IF file.pkg.ct.exists THEN file.pkg.ct ELSE dir.pkg.ct,
                 IF file.pkg.rels.exists THEN file.pkg.rels ELSE dir.pkg.rels))

\* unzip_docx: the directory is removed if it exists, made anew, and the
\* archive extracted into it. An archive that cannot be opened leaves the
\* new directory empty (see unzip_raises).
unzip_docx(dir, file) == Dir(file.pkg)

\* zipfile.ZipFile(docx_path, 'r') raises: no such file, or not a ZIP archive.
unzip_raises(file) == ~ (file.exists /\ file.zip)

\* A plausible wrong safe_copy: a part the destination already has is kept.
safe_copy_keeps_existing(src, dst, rel_path) ==
    IF path_exists(src, rel_path) /\ ~ path_exists(dst, rel_path)
    THEN Dir(Pkg((rel_path :> src.pkg.parts[rel_path]) @@ dst.pkg.parts,
                 dst.pkg.ct, dst.pkg.rels))
    ELSE dst

\* safe_copy: the destination directory after the call. os.makedirs creates
\* the destination's directories, the working directory itself included.
safe_copy(src, dst, rel_path) ==
    IF path_exists(src, rel_path)
    THEN Dir(Pkg((rel_path :> src.pkg.parts[rel_path]) @@ dst.pkg.parts,
                 dst.pkg.ct, dst.pkg.rels))
    ELSE dst

\* shutil.copy2 raises: the source path is a directory, not a file.
safe_copy_raises(src, rel_path) ==
    path_exists(src, rel_path) /\ src.pkg.parts[rel_path] = "dir"

\* zip_dir: the archive written from the files os.walk finds; a missing
\* directory yields none.
zip_dir(dir) == DocxFile(IF dir.exists THEN dir.pkg ELSE EmptyPkg)

\* shutil.rmtree(dir, ignore_errors=True)
rmtree(dir) == NoDir

\* ------------------------------------------------- the blank package
\* The parts every package written by Document().save() holds besides the
\* manifest and the main document's relationship table.
BaseParts == {"_rels/.rels", "docProps/core.xml", "word/document.xml"}

\* The relationship the main document holds to one of its style parts.
RelOf(part) ==
    CASE part = "word/styles.xml" -> <<REL_TYPE_STYLES, "styles.xml">>
      [] part = "word/stylesWithEffects.xml" -> <<"relationships/stylesWithEffects", "stylesWithEffects.xml">>
      [] part = "word/theme/theme1.xml" -> <<REL_TYPE_THEME, "theme/theme1.xml">>
      [] part = "word/fontTable.xml" -> <<"relationships/fontTable", "fontTable.xml">>
      [] part = "word/numbering.xml" -> <<REL_TYPE_NUMBERING, "numbering.xml">>
      [] part = "word/settings.xml" -> <<"relationships/settings", "settings.xml">>

PartNameOf(part) ==
    CASE part = "word/styles.xml" -> "/word/styles.xml"
      [] part = "word/stylesWithEffects.xml" -> "/word/stylesWithEffects.xml"
      [] part = "word/theme/theme1.xml" -> "/word/theme/theme1.xml"
      [] part = "word/fontTable.xml" -> "/word/fontTable.xml"
      [] part = "word/numbering.xml" -> "/word/numbering.xml"
      [] part = "word/settings.xml" -> "/word/settings.xml"

\* The style parts of B in the order of PARTS_TO_COPY.
InOrder(B) == SelectSeq(PARTS_TO_COPY, LAMBDA x : x \in B)

\* A consistent blank package whose style parts are B: each is overridden in
\* the manifest and related from the main document.
BlankPkg(B) ==
    LET ps == InOrder(B)
    IN Pkg([n \in BaseParts \cup B |-> "blank"],
           XmlFile(BaseManifest \o
                   [i \in 1..Len(ps) |-> Override(PartNameOf(ps[i]),
                                                  CONTENT_TYPES[PartNameOf(ps[i])])]),
           XmlFile([i \in 1..Len(ps) |->
                        Relationship(RId(i), RelOf(ps[i])[1], RelOf(ps[i])[2])]))

\* The style parts the default document of the document library may hold:
\* none, styles only, all but numbering, or all that have a content type.
BlankChoices ==
    { {},
      {"word/styles.xml"},
      {"word/styles.xml", "word/stylesWithEffects.xml", "word/theme/theme1.xml",
       "word/fontTable.xml", "word/settings.xml"},
      {"word/styles.xml", "word/stylesWithEffects.xml", "word/theme/theme1.xml",
       "word/fontTable.xml", "word/numbering.xml", "word/settings.xml"} }

\* ------------------------------------------------------ the template
\* The parts of a valid template besides its style parts.
TemplateBaseParts == {"_rels/.rels", "word/document.xml", "word/header1.xml"}

StylePartSet == {PARTS_TO_COPY[i] : i \in DOMAIN PARTS_TO_COPY}

\* The content of invocation p's template parts.
TplTag(p) == IF p = 1 THEN "tpl1" ELSE "tpl2"

\* A template package of invocation p with style parts S; the entries of D
\* are directories of the archive, not files.
TemplatePkg(p, S, D) ==
    Pkg([n \in TemplateBaseParts \cup S |-> IF n \in D THEN "dir" ELSE TplTag(p)],
        XmlFile(BaseManifest), XmlFile(<<>>))

\* The style parts of a package that are files.
StyleFiles(pkg) == {n \in DOMAIN pkg.parts \cap StylePartSet : pkg.parts[n] # "dir"}

\* A directory left behind by an earlier run that failed.
StaleDir == Dir(Pkg([n \in {"word/stale.xml"} |-> "stale"], NoFile, NoFile))


\* The part of the state a specification does not use stays as set here.
RelIdle ==
    /\ relTable = NoFile
    /\ relInit = NoFile
    /\ relPrev = NoFile
    /\ relCall = <<>>
    /\ relCalls = 0

CtIdle ==
    /\ ctFile = NoFile
    /\ ctPrev = NoFile
    /\ ctCall = <<>>
    /\ ctCalls = 0

\* ------------------------------------- specification: relationship table
\* Identifiers a table may hold before the merge touches it: rId1..rId4, the
\* non-canonical rId01, and one that is not of the rIdN form.
IdPool == <<RId(1), RId(2), RId(4), <<"rId", 0, 1>>, <<"docRel", 7>>>>

\* The (type, target) pairs of the merger's calls.
RelPairs ==
    { <<REL_TYPE_STYLES, "styles.xml">>,
      <<REL_TYPE_THEME, "theme/theme1.xml">>,
      <<REL_TYPE_NUMBERING, "numbering.xml">> }

\* The pairs an initial table may hold: those, and one whose type and target
\* belong to different calls.
InitPairs == RelPairs \cup { <<REL_TYPE_STYLES, "numbering.xml">> }

\* The strictly increasing index sequences of length k into 1..n.
RECURSIVE IncSeqs(_, _, _)
IncSeqs(lo, n, k) ==
    IF k = 0 THEN {<<>>}
    ELSE UNION { { <<i>> \o s : s \in IncSeqs(i + 1, n, k - 1) } : i \in lo..n }

\* Tables with k relationships, unique identifiers, any pairs.
InitTablesOfLen(k) ==
    { [i \in 1..k |-> Relationship(IdPool[ix[i]], pr[i][1], pr[i][2])] :
        ix \in IncSeqs(1, Len(IdPool), k), pr \in [1..k -> InitPairs] }

InitTables ==
    {NoFile} \cup { XmlFile(b) : b \in UNION { InitTablesOfLen(k) : k \in 0..MaxInitRels } }

\* No invocation of the tool runs.
ToolIdle ==
    /\ template_file = [kind |-> "other", bytes |-> Absent]
    /\ markdown = <<>>
    /\ tplStyles = {}
    /\ output_filename = <<>>
    /\ doc = [styles |-> {}, body |-> <<>>]
    /\ line_i = 0
    /\ table_content = <<>>
    /\ ret = [isNone |-> TRUE, styles |-> {}, body |-> <<>>]
    /\ texc = ""
    /\ out = <<>>

\* No merge runs: the file system is empty and every invocation idle.
MergeIdle(c) ==
    /\ ctx = c
    /\ pc = [p \in Procs |-> "idle"]
    /\ args = [p \in Procs |-> [template_path |-> "tmp_template.docx",
                                output_path |-> "tmp_output.docx"]]
    /\ idx = [p \in Procs |-> 1]
    /\ exc = [p \in Procs |-> ""]
    /\ files = [f \in Paths |-> Absent]
    /\ dirs = [d \in WorkDirs |-> NoDir]
    /\ blank = EmptyPkg
    /\ ToolIdle

InitRel ==
    /\ CtIdle
    /\ MergeIdle("rel")
    /\ relTable \in InitTables
    /\ relInit = relTable
    /\ relPrev = relTable
    /\ relCall = <<>>
    /\ relCalls = 0

\* One call ensure_relationship(doc_rels_path, rel_type, target).
EnsureRelationship ==
    /\ relCalls < MaxCalls
    /\ \E pr \in RelPairs :
        /\ relTable' = ensure_relationship(relTable, pr[1], pr[2])
        /\ relCall' = pr
    /\ relPrev' = relTable
    /\ relCalls' = relCalls + 1
    /\ UNCHANGED <<relInit, ctVars, fsVars, runVars, toolVars>>

NextRel == EnsureRelationship

SpecRel == InitRel /\ [][NextRel]_vars

\* ---------------------------------------------------------------- C1
\* The last call appended a relationship.
RelAdded == relCall # <<>> /\ Len(relTable.body) = Len(relPrev.body) + 1

NewRel == relTable.body[Len(relTable.body)]

\* C1: when ensure_relationship adds a relationship to a table whose
\* identifiers are E, the new identifier is rIdN for the smallest N >= 1
\* with rIdN not in E, so it equals no identifier of E.
C1_LowestUnusedId ==
    RelAdded =>
        LET E == existing_ids(relPrev.body)
        IN /\ NewRel.Id \notin E
           /\ \E N \in 1..(Cardinality(E) + 1) :
                /\ NewRel.Id = RId(N)
                /\ \A m \in 1..(N - 1) : RId(m) \in E

\* C1 witness: E = {rId1, rId2, rId4} and the call assigned rId3.
C1_Witness ==
    /\ RelAdded
    /\ existing_ids(relPrev.body) = {RId(1), RId(2), RId(4)}
    /\ NewRel.Id = RId(3)

\* ---------------------------------------------------------------- C7
UniqueIds(root) ==
    \A i, j \in DOMAIN root : (i # j /\ root[i].Id # NoId) => root[i].Id # root[j].Id

\* C7: after any sequence of ensure_relationship calls on a table with
\* unique identifiers, identifiers are unique, no (type, target) pair occurs
\* in two relationships added by the calls, every relationship of the
\* initial table keeps its identifier, type and target, and a call whose
\* pair was already present left the table unchanged.
C7_TableInvariant ==
    LET root == relTable.body
        n0 == Len(relInit.body)
    IN /\ UniqueIds(root)
       /\ \A i, j \in (n0 + 1)..Len(root) :
            (root[i].Type = root[j].Type /\ root[i].Target = root[j].Target) => i = j
       /\ Len(root) >= n0
       /\ \A i \in 1..n0 : root[i] = relInit.body[i]
       /\ (relCall # <<>> /\ rel_exists(relPrev.body, relCall[1], relCall[2]))
            => relTable = relPrev

\* C7 witness: a pair was ensured twice in a row, after the first call added
\* it to a table that already held relationships.
C7_Witness ==
    /\ relCalls >= 2
    /\ Len(relInit.body) >= 2
    /\ Len(relTable.body) > Len(relInit.body)
    /\ rel_exists(relPrev.body, relCall[1], relCall[2])
    /\ relTable = relPrev

\* ------------------------------------- specification: content-type manifest
\* Part names an initial manifest may override: those of CONTENT_TYPES and one
\* that differs from a key of CONTENT_TYPES in letter case only.
OverrideNames ==
    << "/word/styles.xml", "/word/stylesWithEffects.xml", "/word/theme/theme1.xml",
       "/word/fontTable.xml", "/word/numbering.xml", "/word/settings.xml",
       "/word/Styles.xml" >>

\* The content type an initial Override carries: the one CONTENT_TYPES would
\* give, or another one.
InitContentTypes(pn) ==
    (IF pn \in DOMAIN CONTENT_TYPES THEN {CONTENT_TYPES[pn]} ELSE {})
        \cup {"application/xml"}

InitManifestsOfLen(k) ==
    UNION { { BaseManifest \o [i \in 1..k |-> Override(OverrideNames[ix[i]], ty[i])] :
                ty \in { t \in [1..k -> {"application/xml"} \cup
                                        {CONTENT_TYPES[pn] : pn \in DOMAIN CONTENT_TYPES}] :
                            \A i \in 1..k : t[i] \in InitContentTypes(OverrideNames[ix[i]]) } } :
            ix \in IncSeqs(1, Len(OverrideNames), k) }

InitManifests ==
    { XmlFile(b) : b \in UNION { InitManifestsOfLen(k) : k \in 0..MaxInitOverrides } }

InitCT ==
    /\ RelIdle
    /\ MergeIdle("ct")
    /\ ctFile \in InitManifests
    /\ ctPrev = ctFile
    /\ ctCall = <<>>
    /\ ctCalls = 0

\* One call ensure_content_type_override(ct_path, partname, ctype) with an
\* item of CONTENT_TYPES.
EnsureContentTypeOverride ==
    /\ ctCalls < MaxCtCalls
    /\ \E pn \in DOMAIN CONTENT_TYPES :
        /\ ctFile' = ensure_content_type_override(ctFile, pn, CONTENT_TYPES[pn])
        /\ ctCall' = <<pn, CONTENT_TYPES[pn]>>
    /\ ctPrev' = ctFile
    /\ ctCalls' = ctCalls + 1
    /\ UNCHANGED <<relVars, fsVars, runVars, toolVars>>

NextCT == EnsureContentTypeOverride

SpecCT == InitCT /\ [][NextCT]_vars

\* ---------------------------------------------------------------- C8
OverridesFor(root, partname) ==
    { i \in DOMAIN root : root[i].Tag = "Override" /\ root[i].Name = partname }

\* C8: however often ensure_content_type_override runs for a part path, the
\* manifest holds at most one Override for that path, and a call that finds
\* an Override for its exact path leaves the manifest as it was.
C8_OverrideIdempotent ==
    /\ \A pn \in DOMAIN CONTENT_TYPES :
        Cardinality(OverridesFor(ctFile.body, pn)) <= 1
    /\ (ctCall # <<>> /\ override_found(ctPrev.body, ctCall[1])) => ctFile = ctPrev

\* C8 witness: the last call repeated the one before it for a path whose
\* initial Override carried another content type, which is still there.
C8_Witness ==
    /\ ctCalls >= 2
    /\ override_found(ctPrev.body, ctCall[1])
    /\ ctFile = ctPrev
    /\ \E i \in DOMAIN ctFile.body :
        /\ ctFile.body[i].Tag = "Override"
        /\ ctFile.body[i].Name = ctCall[1]
        /\ ctFile.body[i].ContentType # ctCall[2]
    /\ \E pn \in DOMAIN CONTENT_TYPES :
        pn # ctCall[1] /\ Len(ctFile.body) > Len(BaseManifest) + 1
\* --------------------- copy_styles_and_dependencies_from_template, by step
Goto(p, label) == pc' = [pc EXCEPT ![p] = label] /\ UNCHANGED exc

\* Where an invocation continues when the merge returns, or raises.
MergeReturned == IF ctx = "tool" THEN "g_load" ELSE "m_returned"
MergeRaised == IF ctx = "tool" THEN "g_except" ELSE "m_raised"

\* The statement invocation p is at raises.
Raise(p) ==
    /\ pc' = [pc EXCEPT ![p] = MergeRaised]
    /\ exc' = [exc EXCEPT ![p] = pc[p]]

\* The outcomes of a file operation the environment decides: it works, or
\* it raises (an I/O error). Concurrent runs are explored without such faults.
Faults == IF ctx = "conc" THEN {FALSE} ELSE BOOLEAN

\* Advance the for loop over a sequence of n items, or leave it for `next`.
LoopNext(p, n, next) ==
    IF idx[p] < n
    THEN idx' = [idx EXCEPT ![p] = idx[p] + 1] /\ UNCHANGED <<pc, exc>>
    ELSE idx' = [idx EXCEPT ![p] = 1] /\ Goto(p, next)

\* Document().save(output_path)
Merge_save(p) ==
    /\ pc[p] = "m_save"
    /\ \E fault \in Faults :
        IF fault
        THEN Raise(p) /\ UNCHANGED files
        ELSE /\ files' = [files EXCEPT ![args[p].output_path] = DocxFile(blank)]
             /\ Goto(p, "m_unzip_t")
    /\ UNCHANGED <<dirs, idx, envVars, buildVars, out, texc>>

\* unzip_docx(template_path, t_dir)
Merge_unzip_template(p) ==
    /\ pc[p] = "m_unzip_t"
    /\ \E fault \in Faults :
        LET file == IF fault THEN Absent ELSE files[args[p].template_path]
        IN /\ dirs' = [dirs EXCEPT ![t_dir] = unzip_docx(@, file)]
           /\ IF unzip_raises(file) THEN Raise(p) ELSE Goto(p, "m_unzip_b")
    /\ UNCHANGED <<files, idx, envVars, buildVars, out, texc>>

\* unzip_docx(output_path, b_dir)
Merge_unzip_blank(p) ==
    /\ pc[p] = "m_unzip_b"
    /\ \E fault \in Faults :
        LET file == IF fault THEN Absent ELSE files[args[p].output_path]
        IN /\ dirs' = [dirs EXCEPT ![b_dir] = unzip_docx(@, file)]
           /\ IF unzip_raises(file) THEN Raise(p) ELSE Goto(p, "m_copy")
    /\ UNCHANGED <<files, idx, envVars, buildVars, out, texc>>

\* One iteration of: for part in PARTS_TO_COPY: safe_copy(t_dir, b_dir, part)
Merge_safe_copy(p) ==
    /\ pc[p] = "m_copy"
    /\ LET part == PARTS_TO_COPY[idx[p]]
       IN \E fault \in Faults :
            IF \/ safe_copy_raises(dirs[t_dir], part)
               \/ (fault /\ path_exists(dirs[t_dir], part))
            THEN Raise(p) /\ UNCHANGED <<dirs, idx>>
            ELSE /\ dirs' = [dirs EXCEPT ![b_dir] = safe_copy(dirs[t_dir], @, part)]
                 /\ LoopNext(p, Len(PARTS_TO_COPY), "m_ct")
    /\ UNCHANGED <<files, envVars, buildVars, out, texc>>

\* One iteration of: for partname, ctype in CONTENT_TYPES.items(): if the part
\* exists in b_dir, ensure_content_type_override(ct_path, partname, ctype).
\* etree.parse raises when the manifest is missing.
Merge_content_type(p) ==
    /\ pc[p] = "m_ct"
    /\ LET partname == CONTENT_TYPES_keys[idx[p]]
           b == dirs[b_dir]
       IN \E fault \in Faults :
            IF path_exists(b, lstrip_slash(partname))
            THEN IF fault \/ ~ b.pkg.ct.exists
                 THEN Raise(p) /\ UNCHANGED <<dirs, idx>>
                 ELSE /\ dirs' = [dirs EXCEPT ![b_dir] =
                            Dir(Pkg(b.pkg.parts,
                                    ensure_content_type_override(
                                        b.pkg.ct, partname, CONTENT_TYPES[partname]),
                                    b.pkg.rels))]
                      /\ LoopNext(p, Len(CONTENT_TYPES_keys), "m_rel_styles")
            ELSE /\ UNCHANGED dirs
                 /\ LoopNext(p, Len(CONTENT_TYPES_keys), "m_rel_styles")
    /\ UNCHANGED <<files, envVars, buildVars, out, texc>>

\* ensure_relationship(doc_rels_path, rel_type, target) on b_dir's table;
\* read_relationships makes the table, and its directories, when missing.
RelStep(p, rel_type, target, next) ==
    /\ \E fault \in Faults :
        IF fault
        THEN Raise(p) /\ UNCHANGED dirs
        ELSE /\ dirs' = [dirs EXCEPT ![b_dir] =
                    Dir(Pkg(@.pkg.parts, @.pkg.ct,
                            ensure_relationship(@.pkg.rels, rel_type, target)))]
             /\ Goto(p, next)
    /\ UNCHANGED <<files, idx, envVars, buildVars, out, texc>>

Merge_rel_styles(p) ==
    /\ pc[p] = "m_rel_styles"
    /\ RelStep(p, REL_TYPE_STYLES, "styles.xml", "m_rel_theme")

Merge_rel_theme(p) ==
    /\ pc[p] = "m_rel_theme"
    /\ RelStep(p, REL_TYPE_THEME, "theme/theme1.xml", "m_rel_numbering")

\* A plausible wrong guard: the numbering relationship is ensured always.
numbering_wanted_always(dir) == TRUE

\* os.path.exists(os.path.join(b_dir, "word/numbering.xml"))
numbering_wanted(dir) == path_exists(dir, "word/numbering.xml")

Merge_rel_numbering(p) ==
    /\ pc[p] = "m_rel_numbering"
    /\ IF numbering_wanted(dirs[b_dir])
       THEN RelStep(p, REL_TYPE_NUMBERING, "numbering.xml", "m_zip")
       ELSE /\ Goto(p, "m_zip")
            /\ UNCHANGED <<dirs, files, idx, envVars, buildVars, out, texc>>

\* zip_dir(b_dir, output_path)
Merge_zip_dir(p) ==
    /\ pc[p] = "m_zip"
    /\ \E fault \in Faults :
        IF fault
        THEN Raise(p) /\ UNCHANGED files
        ELSE /\ files' = [files EXCEPT ![args[p].output_path] = zip_dir(dirs[b_dir])]
             /\ Goto(p, "m_rm_t")
    /\ UNCHANGED <<dirs, idx, envVars, buildVars, out, texc>>

\* shutil.rmtree(t_dir, ignore_errors=True)
Merge_rmtree_tpl(p) ==
    /\ pc[p] = "m_rm_t"
    /\ dirs' = [dirs EXCEPT ![t_dir] = rmtree(@)]
    /\ Goto(p, "m_rm_b")
    /\ UNCHANGED <<files, idx, envVars, buildVars, out, texc>>

\* shutil.rmtree(b_dir, ignore_errors=True), and the return
Merge_rmtree_blank(p) ==
    /\ pc[p] = "m_rm_b"
    /\ dirs' = [dirs EXCEPT ![b_dir] = rmtree(@)]
    /\ Goto(p, MergeReturned)
    /\ UNCHANGED <<files, idx, envVars, buildVars, out, texc>>

MergeStep(p) ==
    \/ Merge_save(p)
    \/ Merge_unzip_template(p)
    \/ Merge_unzip_blank(p)
    \/ Merge_safe_copy(p)
    \/ Merge_content_type(p)
    \/ Merge_rel_styles(p)
    \/ Merge_rel_theme(p)
    \/ Merge_rel_numbering(p)
    \/ Merge_zip_dir(p)
    \/ Merge_rmtree_tpl(p)
    \/ Merge_rmtree_blank(p)

\* ------------------------------------------ specification: one merge
\* The templates a merge is called with: any subset S of the Style Part Set,
\* and those in which word/styles.xml is a directory entry of the archive.
TemplateChoices(p) ==
    { TemplatePkg(p, S, {}) : S \in SUBSET StylePartSet }
        \cup { TemplatePkg(p, S \cup {"word/styles.xml"}, {"word/styles.xml"}) :
                S \in SUBSET StylePartSet }

InitMerge ==
    /\ RelIdle
    /\ CtIdle
    /\ ToolIdle
    /\ ctx = "merge"
    /\ pc = [p \in Procs |-> IF p = 1 THEN "m_save" ELSE "idle"]
    /\ args = [p \in Procs |-> [template_path |-> "tmp_template.docx",
                                output_path |-> "tmp_output.docx"]]
    /\ idx = [p \in Procs |-> 1]
    /\ exc = [p \in Procs |-> ""]
    /\ \E tpl \in TemplateChoices(1) :
        files = [f \in Paths |-> IF f = "tmp_template.docx" THEN DocxFile(tpl) ELSE Absent]
    /\ \E stale \in {NoDir, StaleDir} : dirs = [d \in WorkDirs |-> stale]
    /\ \E B \in BlankChoices : blank = BlankPkg(B)

NextMerge == MergeStep(1)

SpecMerge == InitMerge /\ [][NextMerge]_vars

\* The template and the result of invocation 1.
Template == files["tmp_template.docx"].pkg
Merged == files["tmp_output.docx"].pkg
MergeEnded == pc[1] \in {"m_returned", "m_raised"}

\* The style parts of the template that are files: the S of the merge.
S_of(pkg) == StyleFiles(pkg)

TargetsNumbering(root) == {i \in DOMAIN root : root[i].Target = "numbering.xml"}

\* ---------------------------------------------------------------- C3
\* C3: once copy_styles_and_dependencies_from_template has returned, or has
\* raised while copying parts, repairing the manifest or the relationship
\* table, or re-zipping, neither working directory exists.
C3_WorkDirsRemoved ==
    (\/ pc[1] = "m_returned"
     \/ /\ pc[1] = "m_raised"
        /\ exc[1] \in {"m_copy", "m_ct", "m_rel_styles", "m_rel_theme",
                       "m_rel_numbering", "m_zip"})
        => (~ dirs[t_dir].exists /\ ~ dirs[b_dir].exists)

\* ---------------------------------------------------------------- C5
\* C5 as claimed: merging a template without word/numbering.xml adds no
\* numbering relationship, and the merged table has no entry targeting
\* numbering.xml.
C5_NoNumberingReference ==
    (pc[1] = "m_returned" /\ "word/numbering.xml" \notin DOMAIN Template.parts)
        => /\ Cardinality(TargetsNumbering(Merged.rels.body))
                = Cardinality(TargetsNumbering(blank.rels.body))
           /\ TargetsNumbering(Merged.rels.body) = {}

\* C5 as amended: merging a template without word/numbering.xml adds no
\* numbering relationship to those of the blank package, and when the blank
\* package holds no word/numbering.xml either, the merged table has no entry
\* targeting numbering.xml.
C5_NoNumberingAdded ==
    (pc[1] = "m_returned" /\ "word/numbering.xml" \notin DOMAIN Template.parts)
        => /\ Cardinality(TargetsNumbering(Merged.rels.body))
                = Cardinality(TargetsNumbering(blank.rels.body))
           /\ "word/numbering.xml" \notin DOMAIN blank.parts
                => TargetsNumbering(Merged.rels.body) = {}

\* C5 witness: a merge returned whose template holds style parts but no
\* numbering part, into a blank package without one; the styles relationship
\* was added.
C5_Witness ==
    /\ pc[1] = "m_returned"
    /\ "word/numbering.xml" \notin DOMAIN Template.parts
    /\ "word/numbering.xml" \notin DOMAIN blank.parts
    /\ "word/styles.xml" \in S_of(Template)
    /\ Len(Merged.rels.body) > Len(blank.rels.body)
    /\ TargetsNumbering(Merged.rels.body) = {}

\* ---------------------------------------------------------------- C9
\* C9: for a template whose style parts are S, the merged package holds the
\* blank package's parts and those of S and no other part; each part of S
\* carries the template's content, each other part the blank's; the style
\* parts the template lacks are skipped and the merge returns.
C9_ExactlyStyleParts ==
    pc[1] = "m_returned" =>
        LET S == S_of(Template)
        IN /\ DOMAIN Merged.parts = DOMAIN blank.parts \cup S
           /\ \A n \in S : Merged.parts[n] = TplTag(1)
           /\ \A n \in DOMAIN blank.parts \ S : Merged.parts[n] = "blank"
           /\ Merged.ct.exists
           /\ Merged.rels.exists

\* C9 witness: a merge returned for a template holding some style parts and
\* lacking others, one of them also a part of the blank package and one not.
C9_Witness ==
    /\ pc[1] = "m_returned"
    /\ S_of(Template) # {}
    /\ S_of(Template) # StylePartSet
    /\ \E n \in S_of(Template) : n \in DOMAIN blank.parts
    /\ \E n \in S_of(Template) : n \notin DOMAIN blank.parts
    /\ \E n \in DOMAIN blank.parts \cap StylePartSet : n \notin S_of(Template)

\* ------------------------------ specification: two concurrent merges
\* Two invocations of copy_styles_and_dependencies_from_template, each with a
\* template and an output path of its own, run in one working directory:
\* their statements interleave, and t_dir and b_dir are the same two names.
ConcStyleSets == { {"word/styles.xml"}, {"word/styles.xml", "word/numbering.xml"} }

TemplatePathOf(p) == IF p = 1 THEN "tmp_template.docx" ELSE "other_template.docx"
OutputPathOf(p) == IF p = 1 THEN "tmp_output.docx" ELSE "other_output.docx"

InitConc ==
    /\ RelIdle
    /\ CtIdle
    /\ ToolIdle
    /\ ctx = "conc"
    /\ pc = [p \in Procs |-> "m_save"]
    /\ args = [p \in Procs |-> [template_path |-> TemplatePathOf(p),
                                output_path |-> OutputPathOf(p)]]
    /\ idx = [p \in Procs |-> 1]
    /\ exc = [p \in Procs |-> ""]
    /\ \E S1 \in ConcStyleSets, S2 \in ConcStyleSets :
        files = [f \in Paths |->
                    CASE f = TemplatePathOf(1) -> DocxFile(TemplatePkg(1, S1, {}))
                      [] f = TemplatePathOf(2) -> DocxFile(TemplatePkg(2, S2, {}))
                      [] OTHER -> Absent]
    /\ dirs = [d \in WorkDirs |-> NoDir]
    /\ \E B \in BlankChoices : blank = BlankPkg(B)

NextConc == \E p \in Procs : MergeStep(p)

SpecConc == InitConc /\ [][NextConc]_vars

\* ---------------------------------------------------------------- C6
\* The parts invocation p copied from its template that b_dir holds.
CopiedParts(p) ==
    IF dirs[b_dir].exists
    THEN {n \in DOMAIN dirs[b_dir].pkg.parts : dirs[b_dir].pkg.parts[n] = TplTag(p)}
    ELSE {}

\* Invocation p has extracted into b_dir and not yet re-zipped it.
InFlight(p) ==
    pc[p] \in {"m_copy", "m_ct", "m_rel_styles", "m_rel_theme", "m_rel_numbering", "m_zip"}

\* Invocation q executes unzip_docx(output_path, b_dir) or the final
\* shutil.rmtree(b_dir).
WipesBlankDir(q) == pc[q] \in {"m_unzip_b", "m_rm_b"} /\ pc'[q] # pc[q]

\* C6: whenever one invocation wipes and recreates, or finally removes, the
\* shared b_dir while another invocation is between its extraction and its
\* re-zipping, every part the other had copied into b_dir is gone.
C6_WipeDestroysInFlightParts ==
    [][\A p \in Procs, q \in Procs :
        (p # q /\ WipesBlankDir(q) /\ InFlight(p) /\ CopiedParts(p) # {})
            => CopiedParts(p)' = {}]_vars

\* C6 witness: an invocation is about to re-zip b_dir, no statement of its
\* own has raised, and the parts it copied from its template are not there.
C6_Witness ==
    \E p \in Procs :
        /\ pc[p] = "m_zip"
        /\ exc[p] = ""
        /\ S_of(files[args[p].template_path].pkg) # {}
        /\ CopiedParts(p) = {}

\* ------------------------------------- text: lines as token sequences
\* A string is a sequence of tokens: a tag, a run of text, a blank (" ") or
\* a line break (NL).
NL == "\n"
Whitespace == {" ", NL}

\* The tokens whose last character is ">".
GtTokens ==
    { ">", "</div>", "<table>", "</table>", "<thead>", "</thead>", "<tbody>",
      "</tbody>", "<tr>", "</tr>", "<th>", "</th>", "<td>", "</td>" }

\* The tokens whose first characters are "</".
ClosingTokens ==
    { "</div>", "</table>", "</thead>", "</tbody>", "</tr>", "</th>", "</td>" }

\* Op applied to the value of x, which is computed once however often Op
\* refers to its argument.
Strict(Op(_), x) == CHOOSE r \in {Op(v) : v \in {x}} : TRUE

\* str.strip()
RECURSIVE lstrip(_)
lstrip(s) == IF s # <<>> /\ Head(s) \in Whitespace THEN lstrip(Tail(s)) ELSE s

RECURSIVE rstrip(_)
rstrip(s) ==
    IF s # <<>> /\ s[Len(s)] \in Whitespace THEN rstrip(SubSeq(s, 1, Len(s) - 1)) ELSE s

strip(s) == rstrip(lstrip(s))

\* str.startswith(prefix) for a prefix that is one token.
startswith(s, prefix) == s # <<>> /\ s[1] = prefix

\* '\n'.join(lines)
RECURSIVE join(_)
join(ls) ==
    LET joined(l) ==
            IF l = <<>> THEN <<>>
            ELSE IF Len(l) = 1 THEN l[1]
            ELSE l[1] \o <<NL>> \o join(Tail(l))
    IN Strict(joined, ls)

\* The least index >= from of a token of `set` in s, 0 if there is none.
FirstIn(s, set, from) ==
    LET hits == {k \in from..Len(s) : s[k] \in set}
    IN IF hits = {} THEN 0 ELSE CHOOSE k \in hits : \A h \in hits : k <= h

NoMatch == [found |-> FALSE, group |-> <<>>, end |-> 0]

\* re.search(r'OPEN(.*?)CLOSE', s): the leftmost OPEN that a CLOSE follows,
\* and the nearest such CLOSE; group(1) is what lies between.
re_search(s, opens, closes) ==
    LET closed(t, k) ==
            LET m == IF k = 0 THEN 0 ELSE FirstIn(t, closes, k + 1)
            IN IF m = 0 THEN NoMatch
               ELSE [found |-> TRUE, group |-> SubSeq(t, k + 1, m - 1), end |-> m]
        opened(t) ==
            LET from(k) == closed(t, k)
            IN Strict(from, FirstIn(t, opens, 1))
    IN Strict(opened, s)

\* re.findall(r'OPEN(.*?)CLOSE', s): the groups of the successive
\* non-overlapping matches.
RECURSIVE re_findall(_, _, _)
re_findall(s, opens, closes) ==
    LET matches(t) ==
            LET rest(mt) ==
                    IF ~ mt.found THEN <<>>
                    ELSE <<mt.group>>
                            \o re_findall(SubSeq(t, mt.end + 1, Len(t)), opens, closes)
            IN Strict(rest, re_search(t, opens, closes))
    IN Strict(matches, s)

\* ------------------------------------------------ table-buffer parsing
\* [cell.strip() for cell in cells]
strip_all(cells) == [j \in DOMAIN cells |-> strip(cells[j])]

\* The header row: the <th> cells of the <thead> region, if any.
header_rows(table_text) ==
    LET header_match == re_search(table_text, {"<thead>"}, {"</thead>"})
        header_row == re_findall(header_match.group, {"<th>"}, {"</th>"})
    IN IF header_match.found /\ header_row # <<>>
       THEN <<strip_all(header_row)>>
       ELSE <<>>

\* The rows of the <tbody> region: each <tr> with at least one cell.
RECURSIVE rows_data(_)
rows_data(rows) ==
    LET data(rs) ==
            IF rs = <<>> THEN <<>>
            ELSE LET cells == re_findall(Head(rs), {"<th>", "<td>"}, {"</th>", "</td>"})
                 IN (IF cells # <<>> THEN <<strip_all(cells)>> ELSE <<>>)
                        \o rows_data(Tail(rs))
    IN Strict(data, rows)

body_rows(table_text) ==
    LET body_match == re_search(table_text, {"<tbody>"}, {"</tbody>"})
    IN IF body_match.found
       THEN rows_data(re_findall(body_match.group, {"<tr>"}, {"</tr>"}))
       ELSE <<>>

\* table_data of the captured lines.
parse_table(content) ==
    LET parsed(table_text) == header_rows(table_text) \o body_rows(table_text)
    IN Strict(parsed, join(content))

\* --------------------------------------------------- document building
\* Pt(10)
FontSizePt == 10

\* The style names generate_docx_with_template assigns.
STYLE_TITLE == "A-title"
STYLE_TEXT == "A-text"
STYLE_ONE == "A-heading-1"
STYLE_TWO == "A-heading-2"
STYLE_THREE == "A-heading-3"
STYLE_TABLE == "Table Grid"

\* The <div> openers in the order of the if/elif chain, with their styles.
DIV_CLASSES ==
    << <<"<div class=\"title\"", STYLE_TITLE>>,
       <<"<div class=\"text\"", STYLE_TEXT>>,
       <<"<div class=\"onetitle\"", STYLE_ONE>>,
       <<"<div class=\"twotitle\"", STYLE_TWO>>,
       <<"<div class=\"threetitle\"", STYLE_THREE>> >>

\* The first branch of the chain the stripped line takes, 0 if none.
div_branch(line) ==
    LET hits == {k \in DOMAIN DIV_CLASSES : startswith(line, DIV_CLASSES[k][1])}
    IN IF hits = {} THEN 0 ELSE CHOOSE k \in hits : \A h \in hits : k <= h

Paragraph(style, text) == [kind |-> "paragraph", style |-> style, text |-> text]

\* A table cell: a new one, a header cell and a body cell as written.
EmptyCell == [text |-> <<>>, centered |-> FALSE, bold |-> FALSE, size |-> 0, shade |-> ""]
HeaderCell(text) ==
    [text |-> text, centered |-> TRUE, bold |-> TRUE, size |-> FontSizePt, shade |-> "5B9BD5"]
BodyCell(text) ==
    [text |-> text, centered |-> TRUE, bold |-> FALSE, size |-> FontSizePt, shade |-> ""]

Table(ncols, style, rows) == [kind |-> "table", ncols |-> ncols, style |-> style, rows |-> rows]

\* row_cells[j] raises IndexError: the row holds more values than the new
\* table row has cells.
row_raises(row, ncols) == Len(row) > ncols

\* A variant of write_row that formats every cell of the new row.
write_row_formats_all(row, ncols) ==
    [j \in 1..ncols |-> IF j <= Len(row) THEN BodyCell(row[j]) ELSE BodyCell(<<>>)]

\* The cells of a new table row after the loop over enumerate(row), which
\* stops at the first index without a cell.
write_row(row, ncols) ==
    [j \in 1..ncols |-> IF j <= Len(row) THEN BodyCell(row[j]) ELSE EmptyCell]

\* The rows added for table_data[1:], up to and including the first that raises.
RECURSIVE add_rows(_, _)
add_rows(rows, ncols) ==
    LET added(rs) ==
            IF rs = <<>> THEN <<>>
            ELSE <<write_row(Head(rs), ncols)>>
                    \o (IF row_raises(Head(rs), ncols) THEN <<>>
                        ELSE add_rows(Tail(rs), ncols))
    IN Strict(added, rows)

\* Some row of table_data[1:] raises.
rows_raise(rows, ncols) == \E k \in DOMAIN rows : row_raises(rows[k], ncols)

\* The table built from a non-empty table_data: [raised, table].
build_table(table_data, styles) ==
    LET built(td) ==
            LET ncols == Len(td[1])
                header == [j \in 1..ncols |-> HeaderCell(td[1][j])]
            IN IF STYLE_TABLE \notin styles
               THEN [raised |-> TRUE,
                     table |-> Table(ncols, "", <<[j \in 1..ncols |-> EmptyCell]>>)]
               ELSE [raised |-> rows_raise(Tail(td), ncols),
                     table |-> Table(ncols, STYLE_TABLE,
                                     <<header>> \o add_rows(Tail(td), ncols))]
    IN Strict(built, table_data)

\* ------------------------------- generate_docx_with_template, by step
\* final_docx_bytes: None, or the saved document.
None == [isNone |-> TRUE, styles |-> {}, body |-> <<>>]
DocBytes(d) == [isNone |-> FALSE, styles |-> d.styles, body |-> d.body]

\* The styles of the default document of the document library.
DefaultStyles == {STYLE_TABLE, "Normal", "Title"}

\* The styles of the document loaded from a merged package: those of the
\* template when word/styles.xml came from it.
styles_of(pkg) ==
    IF "word/styles.xml" \in DOMAIN pkg.parts /\ pkg.parts["word/styles.xml"] = TplTag(1)
    THEN tplStyles
    ELSE DefaultStyles

\* An exception inside the try block of generate_docx_with_template.
GenRaise ==
    /\ pc' = [pc EXCEPT ![1] = "g_except"]
    /\ exc' = [exc EXCEPT ![1] = pc[1]]

\* with open(tmp_template, "wb") as f: f.write(template_bytes)
Gen_write_template ==
    /\ pc[1] = "g_open"
    /\ \E fault \in Faults :
        IF fault
        THEN GenRaise /\ UNCHANGED files
        ELSE /\ files' = [files EXCEPT !["tmp_template.docx"] = template_file.bytes]
             /\ Goto(1, "m_save")
    /\ UNCHANGED <<dirs, idx, envVars, buildVars, out, texc>>

\* target_doc = Document(tmp_output); lines = ...; line_i = 0
Gen_load ==
    /\ pc[1] = "g_load"
    /\ LET file == files["tmp_output.docx"]
       IN \E fault \in Faults :
            IF fault \/ ~ (file.exists /\ file.zip /\ "word/document.xml" \in DOMAIN file.pkg.parts)
            THEN GenRaise /\ UNCHANGED <<doc, line_i>>
            ELSE /\ doc' = [styles |-> styles_of(file.pkg), body |-> <<>>]
                 /\ line_i' = 0
                 /\ Goto(1, "g_loop")
    /\ UNCHANGED <<files, dirs, idx, envVars, table_content, ret, out, texc>>

\* A variant of next_index that leaves the index where it is.
next_index_stays(n) == n

\* i += 1, the last statement of every iteration of the while loop.
next_index(n) == n + 1

\* The stripped current line.
CurrentLine == strip(markdown[line_i + 1])

\* Append a paragraph with a style and one run; assigning a style the
\* document lacks raises after the paragraph was added.
AddParagraph(style, text) ==
    IF style \in doc.styles
    THEN /\ doc' = [doc EXCEPT !.body = Append(@, Paragraph(style, text))]
         /\ line_i' = next_index(line_i)
         /\ UNCHANGED <<pc, exc>>
    ELSE /\ doc' = [doc EXCEPT !.body = Append(@, Paragraph("", <<>>))]
         /\ GenRaise
         /\ UNCHANGED line_i

\* One iteration on a line that opens one of the five <div> classes.
Loop_div ==
    /\ pc[1] = "g_loop"
    /\ line_i < Len(markdown)
    /\ div_branch(CurrentLine) # 0
    /\ LET match == re_search(CurrentLine, GtTokens, {"</div>"})
       IN IF match.found
          THEN AddParagraph(DIV_CLASSES[div_branch(CurrentLine)][2], match.group)
          ELSE line_i' = next_index(line_i) /\ UNCHANGED <<doc, pc, exc>>
    /\ UNCHANGED <<files, dirs, idx, envVars, table_content, ret, out, texc>>

\* A variant of capture_end that tests the raw line, not its stripped form.
RECURSIVE capture_end_raw(_, _)
capture_end_raw(lines, k) ==
    IF k < Len(lines) /\ ~ startswith(lines[k + 1], "</table>")
    THEN capture_end_raw(lines, k + 1)
    ELSE k

\* The index of the first line at or after k (0-based) whose stripped form
\* starts with </table>, or len(lines): where the capture loop stops.
RECURSIVE capture_end(_, _)
capture_end(lines, k) ==
    IF k < Len(lines) /\ ~ startswith(strip(lines[k + 1]), "</table>")
    THEN capture_end(lines, k + 1)
    ELSE k

\* One iteration on a line that starts with <table>: capture, parse, build.
Loop_table ==
    /\ pc[1] = "g_loop"
    /\ line_i < Len(markdown)
    /\ div_branch(CurrentLine) = 0
    /\ startswith(CurrentLine, "<table>")
    /\ LET stop == capture_end(markdown, line_i + 1)
           captured == SubSeq(markdown, line_i + 2, stop)
           table_data == parse_table(captured)
       IN /\ table_content' = captured
          /\ IF table_data = <<>>
             THEN line_i' = next_index(stop) /\ UNCHANGED <<doc, pc, exc>>
             ELSE LET built == build_table(table_data, doc.styles)
                  IN /\ doc' = [doc EXCEPT !.body = Append(@, built.table)]
                     /\ IF built.raised
                        THEN GenRaise /\ line_i' = stop
                        ELSE line_i' = next_index(stop) /\ UNCHANGED <<pc, exc>>
    /\ UNCHANGED <<files, dirs, idx, envVars, ret, out, texc>>

\* line != '' and not line.startswith('</')
is_prose(line) == line # <<>> /\ line[1] \notin ClosingTokens

\* One iteration on any other line that is not empty and no closing tag.
Loop_other ==
    /\ pc[1] = "g_loop"
    /\ line_i < Len(markdown)
    /\ div_branch(CurrentLine) = 0
    /\ ~ startswith(CurrentLine, "<table>")
    /\ is_prose(CurrentLine)
    /\ AddParagraph(STYLE_TEXT, CurrentLine)
    /\ UNCHANGED <<files, dirs, idx, envVars, table_content, ret, out, texc>>

\* One iteration on an empty line or a closing tag: only line_i += 1.
Loop_skip ==
    /\ pc[1] = "g_loop"
    /\ line_i < Len(markdown)
    /\ div_branch(CurrentLine) = 0
    /\ ~ startswith(CurrentLine, "<table>")
    /\ ~ is_prose(CurrentLine)
    /\ line_i' = next_index(line_i)
    /\ UNCHANGED <<doc, pc, exc, files, dirs, idx, envVars, table_content, ret, out, texc>>

\* The while condition fails: target_doc.save(doc_bytes); return the bytes.
\* A failing save is recorded as "g_save", apart from a failing iteration.
Gen_save ==
    /\ pc[1] = "g_loop"
    /\ line_i >= Len(markdown)
    /\ \E fault \in Faults :
        IF fault
        THEN /\ pc' = [pc EXCEPT ![1] = "g_except"]
             /\ exc' = [exc EXCEPT ![1] = "g_save"]
             /\ UNCHANGED ret
        ELSE ret' = DocBytes(doc) /\ Goto(1, "g_finally")
    /\ UNCHANGED <<files, dirs, idx, envVars, doc, line_i, table_content, out, texc>>

\* except Exception as e: print(...); traceback.print_exc()
Gen_except ==
    /\ pc[1] = "g_except"
    /\ Goto(1, "g_finally")
    /\ UNCHANGED <<files, dirs, idx, envVars, buildVars, out, texc>>

\* finally: remove tmp_template and tmp_output if they exist; then the
\* function returns: the bytes, or None after an exception.
Gen_finally ==
    /\ pc[1] = "g_finally"
    /\ files' = [files EXCEPT !["tmp_template.docx"] = Absent,
                              !["tmp_output.docx"] = Absent]
    /\ Goto(1, "t_yield")
    /\ UNCHANGED <<dirs, idx, envVars, buildVars, out, texc>>

\* --------------------------------- DocxWithTemplateStyleTool._invoke
\* str.lower() of a file name's last token.
lower(tok) == IF tok = ".DOCX" THEN ".docx" ELSE tok

\* output_filename after: if not lower().endswith('.docx'): += '.docx'
normalized_filename(name) ==
    IF name # <<>> /\ lower(name[Len(name)]) = ".docx" THEN name ELSE Append(name, ".docx")

BlobMessage(blob, filename) ==
    [type |-> "blob", blob |-> blob, filename |-> filename, about |-> ""]
TextMessage(about) ==
    [type |-> "text", blob |-> None, filename |-> <<>>, about |-> about]

\* A plausible wrong validation: the required parts are not looked for.
template_valid_zip_only(bytes) == bytes.zip

\* The archive opens and its namelist holds [Content_Types].xml and
\* word/document.xml.
template_valid(bytes) ==
    /\ bytes.zip
    /\ bytes.pkg.ct.exists
    /\ "word/document.xml" \in DOMAIN bytes.pkg.parts

\* Lines 470-490: take the bytes of the file object and validate them.
Tool_validate ==
    /\ pc[1] = "t_validate"
    /\ IF template_file.kind \in {"blob", "read", "bytes"} /\ template_valid(template_file.bytes)
       THEN Goto(1, "g_open") /\ UNCHANGED texc
       ELSE /\ pc' = [pc EXCEPT ![1] = "t_except"]
            /\ texc' = IF template_file.kind \in {"blob", "read", "bytes"}
                       THEN "ValueError" ELSE "TypeError"
            /\ UNCHANGED exc
    /\ UNCHANGED <<files, dirs, idx, envVars, buildVars, out>>

\* yield self.create_blob_message(blob=final_docx_bytes, meta=...). What the
\* plugin runtime does with blob=None is not this repository's code: it
\* builds the message, or it raises.
Tool_yield_blob ==
    /\ pc[1] = "t_yield"
    /\ \E accepted \in (IF ret.isNone THEN BOOLEAN ELSE {TRUE}) :
        IF accepted
        THEN /\ out' = Append(out, BlobMessage(ret, normalized_filename(output_filename)))
             /\ Goto(1, "t_done")
             /\ UNCHANGED texc
        ELSE /\ pc' = [pc EXCEPT ![1] = "t_except"]
             /\ texc' = "create_blob_message"
             /\ UNCHANGED <<out, exc>>
    /\ UNCHANGED <<files, dirs, idx, envVars, buildVars>>

\* except Exception as e: yield self.create_text_message(...)
Tool_except ==
    /\ pc[1] = "t_except"
    /\ out' = Append(out, TextMessage(texc))
    /\ Goto(1, "t_done")
    /\ UNCHANGED <<files, dirs, idx, envVars, buildVars, texc>>

\* ------------------------------------ specification: one invocation
\* Lines of the tagged-block dialect.
L_title == <<"<div class=\"title\"", ">", "Report", "</div>">>
L_one == <<" ", "<div class=\"onetitle\"", ">", "Chapter 1", "</div>", " ">>
L_text_unclosed == <<"<div class=\"text\"", ">", "no closing tag">>
L_plain == <<"plain text">>
L_blank == <<" ">>
L_table == <<"<table>">>
L_end_table == <<" ", "</table>">>
L_thead == <<"<thead>", "<tr>", "<th>", "A", "</th>", "<th>", " ", "B", "</th>", "</tr>", "</thead>">>
L_tbody == <<"<tbody>">>
L_end_tbody == <<"</tbody>">>
L_row2 == <<"<tr>", "<td>", "1", "</td>", "<td>", "2", "</td>", "</tr>">>
L_row3 == <<"<tr>", "<td>", "3", "</td>", "<td>", "4", "</td>", "<td>", "5", "</td>", "</tr>">>
L_row1 == <<"<tr>", "<th>", "6", "</th>", "</tr>">>

\* The query texts an invocation is given, as lines.
Markdowns ==
    { <<>>,
      <<L_title, L_blank, L_one, L_plain>>,
      <<L_text_unclosed, L_end_table, L_plain>>,
      <<L_table, L_end_table>>,
      <<L_title, L_table, L_thead, L_tbody, L_row2, L_row2, L_end_tbody, L_end_table, L_plain>>,
      <<L_table, L_thead, L_tbody, L_row2, L_row3, L_row2, L_end_tbody, L_end_table, L_plain>>,
      <<L_table, L_thead, L_tbody, L_row1, L_row2, L_end_tbody>> }

\* The template files an invocation is given: an object that is no file, bytes
\* that are no archive, archives lacking a required part, and valid templates
\* with no style part, with styles only, with every style part, and with
\* word/styles.xml a directory.
AllStyles == {STYLE_TITLE, STYLE_TEXT, STYLE_ONE, STYLE_TWO, STYLE_THREE, STYLE_TABLE}

TemplateFiles ==
    { [kind |-> "other", bytes |-> Absent],
      [kind |-> "blob", bytes |-> NotZip],
      [kind |-> "read", bytes |-> DocxFile(Pkg([n \in {"word/document.xml"} |-> TplTag(1)],
                                               NoFile, NoFile))],
      [kind |-> "bytes", bytes |-> DocxFile(Pkg([n \in {"_rels/.rels"} |-> TplTag(1)],
                                                XmlFile(BaseManifest), NoFile))],
      [kind |-> "blob", bytes |-> DocxFile(TemplatePkg(1, {}, {}))],
      [kind |-> "read", bytes |-> DocxFile(TemplatePkg(1, {"word/styles.xml"}, {}))],
      [kind |-> "bytes", bytes |-> DocxFile(TemplatePkg(1, StylePartSet, {}))],
      [kind |-> "blob", bytes |-> DocxFile(TemplatePkg(1, {"word/styles.xml"},
                                                       {"word/styles.xml"}))] }

Init ==
    /\ RelIdle
    /\ CtIdle
    /\ ctx = "tool"
    /\ pc = [p \in Procs |-> IF p = 1 THEN "t_validate" ELSE "idle"]
    /\ args = [p \in Procs |-> [template_path |-> "tmp_template.docx",
                                output_path |-> "tmp_output.docx"]]
    /\ idx = [p \in Procs |-> 1]
    /\ exc = [p \in Procs |-> ""]
    /\ files = [f \in Paths |-> Absent]
    /\ dirs = [d \in WorkDirs |-> NoDir]
    /\ \E B \in BlankChoices : blank = BlankPkg(B)
    /\ template_file \in TemplateFiles
    /\ markdown \in Markdowns
    /\ tplStyles \in {AllStyles, AllStyles \ {STYLE_ONE}}
    /\ output_filename \in { <<"report">>, <<"report", ".DOCX">> }
    /\ doc = [styles |-> {}, body |-> <<>>]
    /\ line_i = 0
    /\ table_content = <<>>
    /\ ret = None
    /\ texc = ""
    /\ out = <<>>

Next ==
    \/ Tool_validate
    \/ Gen_write_template
    \/ MergeStep(1)
    \/ Gen_load
    \/ Loop_div
    \/ Loop_table
    \/ Loop_other
    \/ Loop_skip
    \/ Gen_save
    \/ Gen_except
    \/ Gen_finally
    \/ Tool_yield_blob
    \/ Tool_except

Spec == Init /\ [][Next]_vars

\* ---------------------------------------------------------------- C2
\* C2: an invocation during which an exception occurred inside
\* generate_docx_with_template yields exactly one text message, which
\* reports that exception, and no blob message; a blob message is yielded
\* only with the bytes of a complete document.
C2_FailureYieldsOneText ==
    /\ \A k \in DOMAIN out : out[k].type = "blob" => ~ out[k].blob.isNone
    /\ (pc[1] = "t_done" /\ exc[1] # "")
        => /\ Len(out) = 1
           /\ out[1].type = "text"
           /\ out[1].about = exc[1]

\* ---------------------------------------------------------------- C4
\* The table_data of the last capture holds a body row longer than rows[0].
LongRowCaptured ==
    LET td == parse_table(table_content)
    IN td # <<>> /\ \E k \in 2..Len(td) : Len(td[k]) > Len(td[1])

\* C4: a body row with more cells than rows[0] is truncated: the table is
\* produced with every row of table_data, each body row holding its first
\* column-count values, and the row raises no exception.
C4_LongRowTruncated ==
    (LongRowCaptured /\ STYLE_TABLE \in doc.styles /\ doc.body # <<>>)
        => LET td == parse_table(table_content)
               last == doc.body[Len(doc.body)]
           IN last.kind = "table"
                => /\ exc[1] # "g_loop"
                   /\ Len(last.rows) = Len(td)
                   /\ \A k \in 2..Len(td) : \A j \in 1..Len(td[1]) :
                        j <= Len(td[k]) => last.rows[k][j].text = td[k][j]

\* --------------------------------------------------------------- C10
\* The template bytes are no ZIP archive, or an archive without
\* [Content_Types].xml or without word/document.xml.
RejectedTemplate ==
    /\ template_file.kind # "other"
    /\ \/ ~ template_file.bytes.zip
       \/ ~ template_file.bytes.pkg.ct.exists
       \/ "word/document.xml" \notin DOMAIN template_file.bytes.pkg.parts

\* C10: such an invocation never starts a merge or build step, creates no
\* temporary file and no working directory, never yields a blob message, and
\* ends having yielded exactly one text message.
C10_InvalidTemplateRejected ==
    RejectedTemplate =>
        /\ pc[1] \in {"t_validate", "t_except", "t_done"}
        /\ \A f \in Paths : ~ files[f].exists
        /\ \A d \in WorkDirs : ~ dirs[d].exists
        /\ \A k \in DOMAIN out : out[k].type # "blob"
        /\ pc[1] = "t_done" => (Len(out) = 1 /\ out[1].type = "text")

\* C10 witness: an archive that lacks a required part was rejected with one
\* text message.
C10_Witness ==
    /\ RejectedTemplate
    /\ template_file.bytes.zip
    /\ pc[1] = "t_done"
    /\ out = <<TextMessage("ValueError")>>

\* --------------------------------------------------------------- C11
\* The last node of the document is the table built from the last capture.
LastTable == doc.body[Len(doc.body)]
TableOfCapture ==
    /\ doc.body # <<>>
    /\ parse_table(table_content) # <<>>
    /\ LastTable.kind = "table"
    /\ LastTable.style = STYLE_TABLE

\* Row k of table_data is a body row that the build reaches: no body row
\* before it holds more values than the table has columns.
RowReached(td, k) == \A h \in 2..(k - 1) : Len(td[h]) <= Len(td[1])

\* C11: a body row with fewer cells than rows[0] gets a table row of its own
\* with as many cells as the table has columns; its values are written in
\* order into the leading cells, the remaining cells stay as add_row made
\* them, and a table with no longer row raises no exception.
C11_ShortRowPadded ==
    TableOfCapture =>
        LET td == parse_table(table_content)
            ncols == Len(td[1])
        IN /\ \A k \in 2..Len(td) :
                (Len(td[k]) < ncols /\ RowReached(td, k))
                    => /\ k <= Len(LastTable.rows)
                       /\ Len(LastTable.rows[k]) = ncols
                       /\ \A j \in 1..ncols :
                            IF j <= Len(td[k])
                            THEN LastTable.rows[k][j].text = td[k][j]
                            ELSE LastTable.rows[k][j] = EmptyCell
           /\ (\A k \in 2..Len(td) : Len(td[k]) <= ncols)
                => (exc[1] # "g_loop" /\ Len(LastTable.rows) = Len(td))

\* C11 witness: the table was built from a one-value row under a two-column
\* header: "6" is in the first cell, the second is empty, and the loop goes on.
C11_Witness ==
    /\ TableOfCapture
    /\ pc[1] = "g_loop"
    /\ exc[1] = ""
    /\ Len(LastTable.rows) >= 2
    /\ LastTable.ncols = 2
    /\ LastTable.rows[2][1].text = <<"6">>
    /\ LastTable.rows[2][2] = EmptyCell

\* --------------------------------------------------------------- C12
\* The outer loop is about to classify a line whose trimmed form starts with
\* <table>.
AtTableLine ==
    /\ pc[1] = "g_loop"
    /\ line_i < Len(markdown)
    /\ startswith(strip(markdown[line_i + 1]), "<table>")

\* m: the smallest index (0-based) greater than k of a line whose trimmed
\* form starts with </table>, or the number of lines.
CloseIndex(k) ==
    LET hits == {h \in (k + 1)..(Len(markdown) - 1) :
                    startswith(strip(markdown[h + 1]), "</table>")}
    IN IF hits = {} THEN Len(markdown)
       ELSE CHOOSE h \in hits : \A g \in hits : h <= g

\* The paragraph blocks of a document body.
IsParagraph(node) == node.kind = "paragraph"
Paragraphs(body) == SelectSeq(body, IsParagraph)

\* C12: the iteration on a <table> line at index k captures exactly the lines
\* k+1..m-1, emits no paragraph, and leaves the index at m+1 for the next
\* classification; when building the table raises, the index stays at m and
\* no further line is classified.
C12_TableCapture ==
    [][AtTableLine =>
        LET k == line_i
            m == CloseIndex(k)
        IN /\ table_content' = SubSeq(markdown, k + 2, m)
           /\ Paragraphs(doc'.body) = Paragraphs(doc.body)
           /\ Len(doc'.body) <= Len(doc.body) + 1
           /\ IF pc'[1] = "g_loop"
              THEN line_i' = m + 1
              ELSE pc'[1] = "g_except" /\ line_i' = m]_vars

\* C12 witness: a table was captured up to an indented </table> line that
\* other lines follow; the buffer is not empty, the table is the last node
\* and the index is on the line after </table>.
C12_Witness ==
    /\ pc[1] = "g_loop"
    /\ line_i >= 2
    /\ line_i < Len(markdown)
    /\ markdown[line_i] = L_end_table
    /\ table_content # <<>>
    /\ table_content = SubSeq(markdown, line_i - Len(table_content), line_i - 1)
    /\ doc.body # <<>>
    /\ doc.body[Len(doc.body)].kind = "table"

\* --------------------------------------------------------------- C13
\* The statements of the while loop: one iteration, or the exit through the
\* loop condition.
LoopStep == Loop_div \/ Loop_table \/ Loop_other \/ Loop_skip \/ Gen_save

\* One invocation whose loop keeps running: the interpreter executes the
\* next statement of the loop whenever there is one.
SpecLive == Spec /\ WF_vars(LoopStep)

\* C13: the line index never decreases; every iteration of the outer loop
\* after which the loop goes on has increased it by at least 1 (an iteration
\* that raises leaves the loop); the index never passes len(lines) + 1; and
\* the walk over the lines always comes to an end.
C13_IndexAdvances ==
    /\ [][/\ line_i' >= line_i
          /\ (pc[1] = "g_loop" /\ pc'[1] = "g_loop") => line_i' >= line_i + 1]_vars
    /\ [](line_i <= Len(markdown) + 1)
    /\ (pc[1] = "g_loop") ~> (pc[1] # "g_loop")

\* C13 witness: the walk over nine lines, a table among them, ended through
\* the while condition with the index at the number of lines.
C13_Witness ==
    /\ pc[1] = "g_finally"
    /\ exc[1] = ""
    /\ ~ ret.isNone
    /\ Len(markdown) = 9
    /\ line_i = Len(markdown)
    /\ \E n \in DOMAIN doc.body : doc.body[n].kind = "table"
====
